---------------------------- MODULE Spec2Model ----------------------------
(***************************************************************************)
(* Lighthouse widget (js/lighthouse-widget.js) and its Cloudflare Pages    *)
(* Function (functions/api/lighthouse.js).                                 *)
(*                                                                         *)
(* Encodings.  A JavaScript string is a TLA+ string and is read character  *)
(* by character with SubSeq.  A value that may be null or undefined is a   *)
(* record with a "type" field.  An audit score is an integer number of     *)
(* 1/ScoreScale units, so that 0.49 and 0.5 are distinct grid points.      *)
(*                                                                         *)
(* The widget is one instance of the form, its timers and its result rows. *)
(* Time passes in steps of TickMs; a setTimeout callback runs once its     *)
(* delay has passed, the oldest due callback first.  The variables         *)
(* submitted, analysis, alerts, lastAlert, lastSettled and lastClick       *)
(* record what the handlers did; the code does not read them.              *)
(***************************************************************************)
EXTENDS Integers, Sequences, FiniteSets, TLC

VARIABLES
  audits,           \* extractApiRecommendations: the audit map passed in
  recommendations,  \* extractApiRecommendations: the object being filled
  extracted,        \* extractApiRecommendations has returned
  description,      \* processDescription: its argument
  processedDesc,    \* processDescription: its return value
  processed,        \* processDescription has returned
  score,            \* getImpactLevel: its argument
  impact,           \* getImpactLevel: its return value
  rated,            \* getImpactLevel has returned
  env,              \* onRequestPost: context.env of the deployment
  pc,               \* onRequestPost: where each inbound call stands
  request,          \* onRequestPost: context.request of each inbound call
  googleApiUrl,     \* onRequestPost: what each call asked of the upstream API
  response,         \* onRequestPost: what fetch resolved to for each call
  reply,            \* onRequestPost: the Response each call returned
  fetches,          \* number of fetch calls each inbound call has made
  data,             \* callLighthouseAPI: the body of an ok response, parsed
  scores,           \* callLighthouseAPI: the object it returns
  summarised,       \* callLighthouseAPI has returned
  loading,          \* widget: the loading block, submit button and input
  timers,           \* widget: the setTimeout callbacks not yet run, oldest first
  inFlight,         \* widget: the fetch calls not yet settled
  submits,          \* widget: number of submit events handled
  fetchCalls,       \* widget: number of fetch calls made
  submitted,        \* widget: what the last submit read and what it sent
  analysis,         \* widget: how far each analysis has come
  alerts,           \* widget: number of alerts each analysis has raised
  lastAlert,        \* widget: the text of the last alert
  lastSettled,      \* widget: what the last settled fetch settled with
  resultsContainer, \* widget: the results block and what its grid shows
  expandedCategory, \* widget: the variable of setupResultClickHandlers
  suggestions,      \* widget: style.display of each category's panel
  lastClick,        \* widget: the last row clicked and expandedCategory before it
  typed             \* submit handler: input.value when the form is submitted

extractVars  == <<audits, recommendations, extracted>>
describeVars == <<description, processedDesc, processed>>
impactVars   == <<score, impact, rated>>
forwardVars  == <<env, pc, request, googleApiUrl, response, reply, fetches>>
scoreVars    == <<data, scores, summarised, typed>>
widgetVars   == <<loading, timers, inFlight, submits, fetchCalls, submitted,
                  analysis, alerts, lastAlert, lastSettled, resultsContainer,
                  expandedCategory, suggestions, lastClick>>
vars == <<extractVars, describeVars, impactVars, forwardVars, scoreVars,
          widgetVars>>

-----------------------------------------------------------------------------
(* Bounds of the model *)

\* grid points per hundredth of a score
ScoreSteps == 10
\* largest number of entries of an audit map drawn in InitExtract
MaxAudits == 2
\* largest number of fragments a description drawn in InitDescribe is made of
MaxChunks == 4
\* number of inbound calls of the Pages Function, which may overlap
MaxCalls == 2
\* number of submit events one widget handles
MaxSubmits == 2
\* largest number of fragments of a text typed into the input
MaxTyped == 3

-----------------------------------------------------------------------------
(* JavaScript values *)

\* resolution of the score grid: the integer s stands for the score
\* s / ScoreScale
ScoreScale == 100 * ScoreSteps

Null      == [type |-> "null"]
Undefined == [type |-> "undefined"]
Num(n)    == [type |-> "number", num |-> n]
Str(s)    == [type |-> "string", str |-> s]
\* an object is its properties <<key, value>> in insertion order
Obj(members) == [type |-> "object", members |-> members]
Arr(items)   == [type |-> "array", items |-> items]

\* Math.round(s * 100) for the grid score s: nearest integer, halves go up
RoundPercent(s) == (200 * s + ScoreScale) \div (2 * ScoreScale)

-----------------------------------------------------------------------------
(* getImpactLevel, processDescription, getFriendlyDescription *)

\* the mutation of getImpactLevel in which 0.5 still counts as Medium
getImpactLevelInclusive(s) ==
  IF s = 0 THEN "High"
  ELSE IF 2 * s <= ScoreScale THEN "Medium"
  ELSE "Low"

getImpactLevel(s) ==
  IF s = 0 THEN "High"
  ELSE IF 2 * s < ScoreScale THEN "Medium"
  ELSE "Low"

Char(s, i) == SubSeq(s, i, i)

\* \s of the regular expressions, and String.prototype.trim
IsWhitespace(c) == c \in {" ", "\t", "\n", "\r"}
\* the characters [\s).,;] that end a URL in urlRegex
IsUrlEnd(c) == IsWhitespace(c) \/ c \in {")", ".", ",", ";"}
\* the characters [.,)\s] removed from the end of the cleaned description
IsTrailing(c) == IsWhitespace(c) \/ c \in {".", ",", ")"}

StartsWithAt(s, i, p) ==
  /\ i + Len(p) - 1 <= Len(s)
  /\ SubSeq(s, i, i + Len(p) - 1) = p

Min(S) == CHOOSE x \in S : \A y \in S : x <= y
Max(S) == CHOOSE x \in S : \A y \in S : y <= x

\* number of characters from position i on that are not IsUrlEnd: the greedy
\* [^\s).,;]+ takes them all
UrlRun(s, i) ==
  Min({j \in i..(Len(s) + 1) : j > Len(s) \/ IsUrlEnd(Char(s, j))}) - i

\* length of the match of urlRegex = /(https?:\/\/[^\s).,;]+)/ that starts at
\* position i, 0 when there is none
UrlMatchLen(s, i) ==
  LET scheme == IF StartsWithAt(s, i, "https://") THEN 8
                ELSE IF StartsWithAt(s, i, "http://") THEN 7
                ELSE 0
      run == IF scheme = 0 THEN 0 ELSE UrlRun(s, i + scheme)
  IN  IF run = 0 THEN 0 ELSE scheme + run

\* the positions from i on at which urlRegex matches
MatchStarts(s, i) == {p \in i..Len(s) : UrlMatchLen(s, p) > 0}

\* description.match(urlRegex): the matches of the global regex, left to
\* right, each search resuming after the previous match
RECURSIVE MatchFrom(_, _)
MatchFrom(s, i) ==
  IF MatchStarts(s, i) = {} THEN <<>>
  ELSE LET p == Min(MatchStarts(s, i))
           n == UrlMatchLen(s, p)
       IN  <<SubSeq(s, p, p + n - 1)>> \o MatchFrom(s, p + n)

\* description.replace(urlRegex, '')
RECURSIVE RemoveFrom(_, _)
RemoveFrom(s, i) ==
  IF MatchStarts(s, i) = {} THEN SubSeq(s, i, Len(s))
  ELSE LET p == Min(MatchStarts(s, i))
           n == UrlMatchLen(s, p)
       IN  SubSeq(s, i, p - 1) \o RemoveFrom(s, p + n)

\* description.replace of a regex without the g flag: only the first match
RemoveFirstFrom(s, i) ==
  IF MatchStarts(s, i) = {} THEN SubSeq(s, i, Len(s))
  ELSE LET p == Min(MatchStarts(s, i))
           n == UrlMatchLen(s, p)
       IN  SubSeq(s, i, p - 1) \o SubSeq(s, p + n, Len(s))

\* String.prototype.trim
Trim(s) ==
  LET kept == {i \in 1..Len(s) : ~IsWhitespace(Char(s, i))}
  IN  IF kept = {} THEN "" ELSE SubSeq(s, Min(kept), Max(kept))

\* cleanDescription.replace(/[.,)\s]+$/, '')
StripTrailing(s) ==
  LET kept == {i \in 1..Len(s) : ~IsTrailing(Char(s, i))}
  IN  IF kept = {} THEN "" ELSE SubSeq(s, 1, Max(kept))

\* the mutation of processDescription whose regex lost its g flag in replace
processDescriptionFirstOnly(d) ==
  IF d = "" THEN [type |-> "string", text |-> "", learnMoreUrl |-> Null]
  ELSE LET urls == MatchFrom(d, 1)
       IN  IF Len(urls) = 0
           THEN [type |-> "string", text |-> d, learnMoreUrl |-> Null]
           ELSE [type |-> "object",
                 text |-> Trim(StripTrailing(Trim(RemoveFirstFrom(d, 1)))),
                 learnMoreUrl |-> Str(urls[1])]

\* The return value is a bare string (type "string", learnMoreUrl unused) or
\* the object {text, learnMoreUrl} (type "object")
processDescription(d) ==
  IF d = "" THEN [type |-> "string", text |-> "", learnMoreUrl |-> Null]
  ELSE LET urls == MatchFrom(d, 1)
       IN  IF Len(urls) = 0
           THEN [type |-> "string", text |-> d, learnMoreUrl |-> Null]
           ELSE [type |-> "object",
                 text |-> Trim(StripTrailing(Trim(RemoveFrom(d, 1)))),
                 learnMoreUrl |-> Str(urls[1])]

\* the object literal of getFriendlyDescription, its properties in the order
\* they are written ("document-title" is written twice)
friendlyDescriptions ==
  << <<"largest-contentful-paint",
       "The main content on your page takes too long to load. This affects how quickly users can see and interact with your site.">>,
     <<"first-contentful-paint",
       "Your page takes too long to show any content to users. Faster loading improves user experience.">>,
     <<"speed-index",
       "Your page content loads slowly. Optimizing images and code can make your site feel much faster.">>,
     <<"cumulative-layout-shift",
       "Elements on your page move around while loading, which can be frustrating for users trying to click buttons or read content.">>,
     <<"total-blocking-time",
       "Scripts on your page are preventing users from interacting with it quickly. Optimizing JavaScript will make your site more responsive.">>,
     <<"render-blocking-resources",
       "Some files are preventing your page from loading quickly. Moving or optimizing these files will speed up your site.">>,
     <<"unused-css-rules",
       "Your site is loading CSS styles that aren't being used, which slows down loading time.">>,
     <<"unused-javascript",
       "Your site is loading JavaScript code that isn't being used, which affects performance.">>,
     <<"modern-image-formats",
       "Your images could be in more efficient formats (like WebP) to load faster and use less bandwidth.">>,
     <<"efficiently-encode-images",
       "Your images aren't optimized, making them larger than necessary and slower to load.">>,
     <<"offscreen-images",
       "Images that aren't visible when the page first loads should be loaded later to improve initial loading speed.">>,
     <<"unminified-css",
       "Your CSS files contain extra spaces and comments that make them larger than necessary.">>,
     <<"unminified-javascript",
       "Your JavaScript files contain extra spaces and comments that make them larger than necessary.">>,
     <<"server-response-time",
       "Your web server takes too long to respond, which delays page loading for all visitors.">>,
     <<"uses-text-compression",
       "Your text files aren't compressed, making them take longer to download.">>,
     <<"uses-rel-preconnect",
       "Your site could load faster by connecting to external services earlier in the loading process.">>,
     <<"uses-rel-preload",
       "Important resources could be loaded earlier to improve page speed.">>,
     <<"font-display",
       "Your custom fonts could be set up to show text faster while the fonts are loading.">>,
     <<"color-contrast",
       "Some text on your site is hard to read due to insufficient color contrast, making it difficult for users with vision impairments.">>,
     <<"image-alt",
       "Some images are missing descriptions, making them inaccessible to screen readers and users with visual impairments.">>,
     <<"label",
       "Some form fields are missing labels, making it difficult for users with disabilities to understand what information to enter.">>,
     <<"link-name",
       "Some links don't have descriptive text, making it unclear where they lead for screen reader users.">>,
     <<"button-name",
       "Some buttons don't have clear names, making it confusing for users with disabilities to understand their purpose.">>,
     <<"document-title",
       "Your page is missing a title or has a generic title, which affects accessibility and SEO.">>,
     <<"html-has-lang",
       "Your page doesn't specify its language, which can cause problems for screen readers and translation tools.">>,
     <<"meta-viewport",
       "Your page isn't set up properly for mobile devices, which can cause accessibility and usability issues.">>,
     <<"heading-order",
       "Your page headings aren't in the correct order, which can confuse screen reader users navigating your content.">>,
     <<"skip-link",
       "Your page is missing a \"skip to main content\" link, making navigation difficult for keyboard users.">>,
     <<"is-on-https",
       "Your website isn't using HTTPS, which means data sent between users and your site isn't encrypted and secure.">>,
     <<"uses-http2",
       "Your server could use HTTP/2 to load your site faster and more efficiently.">>,
     <<"no-vulnerable-libraries",
       "Your site is using outdated code libraries that have known security vulnerabilities.">>,
     <<"external-anchors-use-rel-noopener",
       "Links to other websites should be set up more securely to protect your users.">>,
     <<"geolocation-on-start",
       "Your site asks for location permission immediately, which can be annoying and suspicious to users.">>,
     <<"notification-on-start",
       "Your site asks for notification permission immediately, which creates a poor user experience.">>,
     <<"no-document-write",
       "Your site uses outdated JavaScript methods that can slow down page loading.">>,
     <<"js-libraries",
       "Your site is using outdated JavaScript libraries that should be updated for better performance and security.">>,
     <<"document-title",
       "Your page title is missing or not optimized, which hurts your search engine rankings.">>,
     <<"meta-description",
       "Your page is missing a meta description, which is important for search engine results.">>,
     <<"http-status-code",
       "Your page isn't returning the correct status code, which can hurt search engine indexing.">>,
     <<"link-text",
       "Some of your links use generic text like \"click here\" instead of descriptive text that helps with SEO.">>,
     <<"is-crawlable",
       "Search engines are being blocked from indexing your page, which will hurt your search rankings.">>,
     <<"robots-txt",
       "Your robots.txt file has issues that might prevent search engines from properly indexing your site.">>,
     <<"hreflang",
       "If your site serves multiple languages, it needs proper language tags for international SEO.">>,
     <<"canonical",
       "Your page needs canonical tags to prevent duplicate content issues in search results.">>,
     <<"font-size",
       "Some text on your page is too small for mobile users, which can hurt mobile search rankings.">>,
     <<"tap-targets",
       "Some buttons and links on mobile are too small or too close together, making them hard to tap.">> >>

\* the mutation of getFriendlyDescription in which the first property written
\* for a key wins
getFriendlyDescriptionFirst(auditId, originalDescription) ==
  LET hits == {i \in 1..Len(friendlyDescriptions) :
                 friendlyDescriptions[i][1] = auditId}
  IN  IF hits = {} THEN originalDescription
      ELSE LET first == CHOOSE i \in hits : \A j \in hits : i <= j
           IN  friendlyDescriptions[first][2]

\* friendlyDescriptions[auditId] || originalDescription: of two properties
\* with the same key the object literal keeps the later one
getFriendlyDescription(auditId, originalDescription) ==
  LET hits == {i \in 1..Len(friendlyDescriptions) :
                 friendlyDescriptions[i][1] = auditId}
  IN  IF hits = {} THEN originalDescription
      ELSE LET last == CHOOSE i \in hits : \A j \in hits : j <= i
           IN  IF friendlyDescriptions[last][2] = "" THEN originalDescription
               ELSE friendlyDescriptions[last][2]

-----------------------------------------------------------------------------
(* extractApiRecommendations *)

performanceAudits ==
  << "largest-contentful-paint", "first-contentful-paint", "speed-index",
     "cumulative-layout-shift", "total-blocking-time", "render-blocking-resources",
     "unused-css-rules", "unused-javascript", "modern-image-formats",
     "efficiently-encode-images", "offscreen-images", "unminified-css",
     "unminified-javascript", "server-response-time", "uses-text-compression",
     "uses-rel-preconnect", "uses-rel-preload", "font-display" >>

accessibilityAudits ==
  << "color-contrast", "image-alt", "label", "link-name",
     "button-name", "document-title", "html-has-lang",
     "meta-viewport", "heading-order", "skip-link",
     "focus-traps", "focusable-controls", "interactive-element-affordance" >>

bestPracticesAudits ==
  << "is-on-https", "uses-http2", "no-vulnerable-libraries",
     "external-anchors-use-rel-noopener", "geolocation-on-start",
     "notification-on-start", "no-document-write", "js-libraries" >>

seoAudits ==
  << "document-title", "meta-description", "http-status-code",
     "link-text", "is-crawlable", "robots-txt", "image-alt",
     "hreflang", "canonical", "font-size", "tap-targets" >>

Categories == {"performance", "accessibility", "bestPractices", "seo"}

Allowlist(category) ==
  CASE category = "performance"   -> performanceAudits
    [] category = "accessibility" -> accessibilityAudits
    [] category = "bestPractices" -> bestPracticesAudits
    [] category = "seo"           -> seoAudits

\* audit && audit.score !== null && audit.score < 1 && audit.title
\*       && audit.description         (undefined < 1 is false)
PassesFilter(audits_, auditId) ==
  /\ auditId \in DOMAIN audits_
  /\ audits_[auditId].score.type = "number"
  /\ audits_[auditId].score.num < ScoreScale
  /\ audits_[auditId].title # ""
  /\ audits_[auditId].description # ""

\* the object pushed for one audit
Recommendation(auditId, audit) ==
  LET friendlyDescription == getFriendlyDescription(auditId, audit.description)
      processedDescription == processDescription(friendlyDescription)
  IN  [ title        |-> audit.title,
        description  |-> processedDescription.text,
        learnMoreUrl |-> IF processedDescription.type = "object"
                         THEN processedDescription.learnMoreUrl ELSE Null,
        impact       |-> getImpactLevel(audit.score.num),
        score        |-> RoundPercent(audit.score.num),
        displayValue |-> audit.displayValue ]

\* the mutation of the forEach loop that walks the allowlist and puts the
\* lower scores first
RECURSIVE forEachAuditByScore(_, _, _, _)
forEachAuditByScore(audits_, allowlist, i, acc) ==
  IF i > Len(allowlist) THEN acc
  ELSE LET auditId == allowlist[i]
       IN  IF PassesFilter(audits_, auditId)
           THEN LET r == Recommendation(auditId, audits_[auditId])
                    lower == SelectSeq(acc, LAMBDA x : x.score <= r.score)
                    higher == SelectSeq(acc, LAMBDA x : x.score > r.score)
                IN  forEachAuditByScore(audits_, allowlist, i + 1,
                                        lower \o <<r>> \o higher)
           ELSE forEachAuditByScore(audits_, allowlist, i + 1, acc)

\* the mutation of the forEach loop whose filter lets a passing audit through
RECURSIVE forEachAuditUnfiltered(_, _, _, _)
forEachAuditUnfiltered(audits_, allowlist, i, acc) ==
  IF i > Len(allowlist) THEN acc
  ELSE LET auditId == allowlist[i]
       IN  IF /\ auditId \in DOMAIN audits_
              /\ audits_[auditId].score.type = "number"
              /\ audits_[auditId].score.num <= ScoreScale
              /\ audits_[auditId].title # ""
              /\ audits_[auditId].description # ""
           THEN forEachAuditUnfiltered(audits_, allowlist, i + 1,
                  Append(acc, Recommendation(auditId, audits_[auditId])))
           ELSE forEachAuditUnfiltered(audits_, allowlist, i + 1, acc)

\* <category>Audits.forEach(auditId => { ... push ... }) from index i on, acc
\* being the category's array so far
RECURSIVE forEachAudit(_, _, _, _)
forEachAudit(audits_, allowlist, i, acc) ==
  IF i > Len(allowlist) THEN acc
  ELSE LET auditId == allowlist[i]
       IN  IF PassesFilter(audits_, auditId)
           THEN forEachAudit(audits_, allowlist, i + 1,
                  Append(acc, Recommendation(auditId, audits_[auditId])))
           ELSE forEachAudit(audits_, allowlist, i + 1, acc)

NoRecommendations == [category \in Categories |-> <<>>]

extractApiRecommendations(audits_) ==
  [category \in Categories |->
     forEachAudit(audits_, Allowlist(category), 1, NoRecommendations[category])]

-----------------------------------------------------------------------------
(* JSON, as request.json(), response.json() and JSON.stringify treat it.   *)
(* A body text either does not parse or is a document; a document may      *)
(* write a key of an object twice.                                         *)

Unparseable == [parses |-> FALSE]
Text(doc)   == [parses |-> TRUE, doc |-> doc]

\* JSON.parse of a document: of two members with one key an object keeps the
\* later value, at the place of the first
RECURSIVE JSONvalue(_)
JSONvalue(doc) ==
  IF doc.type = "object"
  THEN LET ms == doc.members
           firsts == SelectSeq([i \in 1..Len(ms) |-> i],
                               LAMBDA i : \A j \in 1..(i - 1) : ms[j][1] # ms[i][1])
           LastOf(key) == Max({i \in 1..Len(ms) : ms[i][1] = key})
       IN  Obj([k \in 1..Len(firsts) |->
                  <<ms[firsts[k]][1], JSONvalue(ms[LastOf(ms[firsts[k]][1])][2])>>])
  ELSE IF doc.type = "array"
  THEN Arr([k \in 1..Len(doc.items) |-> JSONvalue(doc.items[k])])
  ELSE doc

\* JSON.stringify of a value
JSONstringify(value) == Text(value)

\* value.key for a value that is neither null nor undefined
GetProp(value, key) ==
  IF value.type = "object" /\ \E i \in 1..Len(value.members) : value.members[i][1] = key
  THEN value.members[Max({i \in 1..Len(value.members) : value.members[i][1] = key})][2]
  ELSE Undefined

IsNullish(value) == value.type \in {"null", "undefined"}

\* ToBoolean
Truthy(value) ==
  CASE value.type \in {"null", "undefined"} -> FALSE
    [] value.type = "number" -> value.num # 0
    [] value.type = "string" -> value.str # ""
    [] OTHER -> TRUE

-----------------------------------------------------------------------------
(* onRequestPost (functions/api/lighthouse.js), cut at its awaits *)

\* new Response(JSON.stringify(value), {status, headers: {...corsHeaders,
\* 'Content-Type': 'application/json'}})
JsonResponse(status, value) ==
  [ status |-> status, body |-> JSONstringify(value),
    cors |-> TRUE, contentType |-> "application/json" ]

ErrorResponse(status, message) ==
  JsonResponse(status, Obj(<< <<"error", message>> >>))

\* new Response(null, {headers: corsHeaders})
PreflightResponse ==
  [ status |-> 200, body |-> [parses |-> FALSE, empty |-> TRUE],
    cors |-> TRUE, contentType |-> "" ]

\* the mutation of the catch block that answers with a gateway status
catchBlockBadGateway == ErrorResponse(502, Str("Internal server error"))

\* catch (error) { ... }
catchBlock == ErrorResponse(500, Str("Internal server error"))

NoResponse  == [status |-> 0]
NotFetched  == [kind |-> "none"]
NetworkFailure == [kind |-> "failure"]
Upstream(status, body) == [kind |-> "response", status |-> status, body |-> body]
NoUrl == [asked |-> FALSE]

defaultCategories ==
  Arr(<<Str("performance"), Str("accessibility"), Str("best-practices"), Str("seo")>>)

\* the mutation of the first stretch that reads the body before the credential
onInvokeBodyFirst(env_, request_) ==
  IF request_.method = "OPTIONS"
  THEN [next |-> "done", reply |-> PreflightResponse]
  ELSE [next |-> "requestJson", reply |-> NoResponse]

\* lines 6-36: from the call to the first await, request.json()
onInvoke(env_, request_) ==
  IF request_.method = "OPTIONS"
  THEN [next |-> "done", reply |-> PreflightResponse]
  ELSE IF env_.GOOGLE_PAGESPEED_API_KEY = ""
  THEN [next |-> "done",
        reply |-> ErrorResponse(500, Str("API key not configured"))]
  ELSE [next |-> "requestJson", reply |-> NoResponse]

\* lines 36-53: request.json() settles; up to the second await, fetch
onRequestJson(env_, body) ==
  IF ~body.parses
  THEN [next |-> "done", reply |-> catchBlock, url |-> NoUrl]
  ELSE LET requestData == JSONvalue(body.doc)
       IN  IF IsNullish(requestData)
           THEN \* destructuring null throws a TypeError
                [next |-> "done", reply |-> catchBlock, url |-> NoUrl]
           ELSE LET url == GetProp(requestData, "url")
                    strategy == IF GetProp(requestData, "strategy") = Undefined
                                THEN Str("desktop")
                                ELSE GetProp(requestData, "strategy")
                    categories == IF GetProp(requestData, "categories") = Undefined
                                  THEN defaultCategories
                                  ELSE GetProp(requestData, "categories")
                IN  IF ~Truthy(url)
                    THEN [next |-> "done",
                          reply |-> ErrorResponse(400, Str("URL is required")),
                          url |-> NoUrl]
                    ELSE IF categories.type # "array"
                    THEN \* categories.join is not a function: a TypeError
                         [next |-> "done", reply |-> catchBlock, url |-> NoUrl]
                    ELSE [next |-> "fetch", reply |-> NoResponse,
                          url |-> [asked |-> TRUE, url |-> url,
                                   key |-> env_.GOOGLE_PAGESPEED_API_KEY,
                                   strategy |-> strategy,
                                   category |-> categories.items]]

ResponseOk(response_) == response_.status >= 200 /\ response_.status <= 299

\* lines 53-56 and 78: fetch settles; up to the third await, response.json()
onFetch(outcome) ==
  IF outcome.kind = "failure"
  THEN [next |-> "done", reply |-> catchBlock]
  ELSE IF ~ResponseOk(outcome)
  THEN [next |-> "errorJson", reply |-> NoResponse]
  ELSE [next |-> "dataJson", reply |-> NoResponse]

\* lines 56-75: response.json().catch(() => ({})) settles
onErrorJson(response_) ==
  LET errorData == IF response_.body.parses THEN JSONvalue(response_.body.doc)
                   ELSE Obj(<<>>)
  IN  IF response_.status = 403
      THEN ErrorResponse(response_.status,
                         Str("API key is invalid or quota exceeded"))
      ELSE IF response_.status = 429
      THEN ErrorResponse(response_.status,
                         Str("API rate limit exceeded. Please try again later"))
      ELSE IF IsNullish(errorData)
      THEN \* errorData.error of null throws a TypeError
           catchBlock
      ELSE LET error == GetProp(errorData, "error")
               message == IF IsNullish(error) THEN Undefined
                          ELSE GetProp(error, "message")
           IN  IF Truthy(message)
               THEN ErrorResponse(response_.status, message)
               ELSE ErrorResponse(response_.status, Str("API error occurred"))

\* the mutation of the success path that hands on the result alone
onDataJsonResultOnly(response_) ==
  IF ~response_.body.parses THEN catchBlock
  ELSE IF IsNullish(JSONvalue(response_.body.doc)) THEN catchBlock
  ELSE JsonResponse(200, GetProp(JSONvalue(response_.body.doc), "lighthouseResult"))

\* lines 78-86: response.json() settles
onDataJson(response_) ==
  IF ~response_.body.parses THEN catchBlock
  ELSE JsonResponse(200, JSONvalue(response_.body.doc))

-----------------------------------------------------------------------------
(* The widget (js/lighthouse-widget.js): callLighthouseAPI, setLoadingState, *)
(* displayResults, the row click handler and the submit handler             *)

\* setTimeout(..., 1000) of the status message and setTimeout(..., 500) of the
\* display, in milliseconds
StatusDelay == 1000
DisplayDelay == 500
\* the step of the clock: both delays are multiples of it
TickMs == DisplayDelay

\* the handlers functions/api/lighthouse.js exports
ExportedHandlers == {"onRequestPost"}

\* the handler Pages calls for a method: onRequest<Method>, or onRequest
HandlerFor(method) ==
  LET named == CASE method = "POST"    -> "onRequestPost"
                 [] method = "OPTIONS" -> "onRequestOptions"
                 [] method = "GET"     -> "onRequestGet"
                 [] OTHER              -> "onRequest"
  IN  IF named \in ExportedHandlers THEN named
      ELSE IF "onRequest" \in ExportedHandlers THEN "onRequest"
      ELSE "none"

\* onRequestPost from its call to its return, for a request Pages hands it
forward(env_, request_, outcome) ==
  LET invoked == onInvoke(env_, request_)
      parsed == onRequestJson(env_, request_.body)
      fetched == onFetch(outcome)
  IN  IF invoked.next = "done" THEN invoked.reply
      ELSE IF parsed.next = "done" THEN parsed.reply
      ELSE IF fetched.next = "done" THEN fetched.reply
      ELSE IF fetched.next = "errorJson" THEN onErrorJson(outcome)
      ELSE onDataJson(outcome)

\* JSON.stringify({url: targetUrl, strategy: strategy, categories:
\* requestedCategories})
requestBody(targetUrl) ==
  Text(Obj(<< <<"url", Str(targetUrl)>>, <<"strategy", Str("mobile")>>,
              <<"categories", defaultCategories>> >>))

\* the messages of the errors the engine throws
FetchFailedMessage == "Failed to fetch"
SyntaxErrorMessage == "Unexpected token '<' is not valid JSON"
TypeErrorMessage   == "Cannot read properties of null"

Thrown(message)  == [threw |-> TRUE, message |-> message]
Returned(value)  == [threw |-> FALSE, value |-> value]

\* a string property of a parsed value, '' when it is none
StringOf(value) == IF value.type = "string" THEN value.str ELSE ""

\* lighthouseResult.audits || {} as the map extractApiRecommendations reads
AuditsOf(value) ==
  IF value.type # "object" THEN <<>>
  ELSE [ auditId \in {value.members[i][1] : i \in 1..Len(value.members)} |->
           LET audit == GetProp(value, auditId)
           IN  [ score        |-> GetProp(audit, "score"),
                 title        |-> StringOf(GetProp(audit, "title")),
                 description  |-> StringOf(GetProp(audit, "description")),
                 displayValue |-> StringOf(GetProp(audit, "displayValue")) ] ]

\* the mutation of categoryScore that reads each category under the key of the
\* score summary
categoryScoreByOwnKey(categoryResults, key) ==
  LET own == IF key = "best-practices" THEN "bestPractices" ELSE key
      category == GetProp(categoryResults, own)
      s == IF IsNullish(category) THEN Undefined ELSE GetProp(category, "score")
  IN  IF s.type = "number" THEN RoundPercent(s.num) ELSE 0

\* Math.round((categoryResults[key]?.score || 0) * 100)
categoryScore(categoryResults, key) ==
  LET category == GetProp(categoryResults, key)
      s == IF IsNullish(category) THEN Undefined ELSE GetProp(category, "score")
  IN  IF s.type = "number" THEN RoundPercent(s.num) ELSE 0

\* data.loadingExperience?.overall_category || 'Unknown'
overallCategory(experience) ==
  LET category == IF IsNullish(experience) THEN Undefined
                  ELSE GetProp(experience, "overall_category")
  IN  IF Truthy(category) THEN StringOf(category) ELSE "Unknown"

\* lines 320-341: the object callLighthouseAPI builds of a body with a
\* lighthouseResult; its timestamp is the clock's and is left out
scoreSummary(data_, targetUrl) ==
  LET lighthouseResult == GetProp(data_, "lighthouseResult")
      categoryResults == IF Truthy(GetProp(lighthouseResult, "categories"))
                         THEN GetProp(lighthouseResult, "categories")
                         ELSE Obj(<<>>)
      audits_ == IF Truthy(GetProp(lighthouseResult, "audits"))
                 THEN GetProp(lighthouseResult, "audits") ELSE Obj(<<>>)
  IN  [ performance   |-> categoryScore(categoryResults, "performance"),
        accessibility |-> categoryScore(categoryResults, "accessibility"),
        bestPractices |-> categoryScore(categoryResults, "best-practices"),
        seo           |-> categoryScore(categoryResults, "seo"),
        url           |-> targetUrl,
        source        |-> "Google PageSpeed Insights",
        strategy      |-> "mobile",
        loadingExperience |->
          overallCategory(GetProp(data_, "loadingExperience")),
        originLoadingExperience |->
          overallCategory(GetProp(data_, "originLoadingExperience")),
        apiRecommendations |-> extractApiRecommendations(AuditsOf(audits_)) ]

\* the message of the Error thrown for a response that is not ok
apiErrorMessage(status, body) ==
  LET errorData == IF body.parses THEN JSONvalue(body.doc) ELSE Obj(<<>>)
      error == IF IsNullish(errorData) THEN Undefined
               ELSE GetProp(errorData, "error")
      message == IF IsNullish(error) THEN Undefined ELSE GetProp(error, "message")
  IN  IF status = 403
      THEN "API key is invalid or quota exceeded. Please check your Google API key."
      ELSE IF status = 429
      THEN "API rate limit exceeded. Please try again later."
      ELSE IF IsNullish(errorData)
      THEN \* errorData.error of null throws a TypeError
           TypeErrorMessage
      ELSE "API error: " \o ToString(status) \o " - "
             \o (IF Truthy(message) THEN StringOf(message) ELSE "Unknown error")

\* the mutation of callLighthouseAPI that returns a summary of zeros where the
\* body has no lighthouseResult
callLighthouseAPIDegraded(targetUrl, settled) ==
  IF settled.kind = "failure" THEN Thrown(FetchFailedMessage)
  ELSE IF ~ResponseOk(settled)
  THEN Thrown(apiErrorMessage(settled.status, settled.body))
  ELSE IF ~settled.body.parses THEN Thrown(SyntaxErrorMessage)
  ELSE IF IsNullish(JSONvalue(settled.body.doc)) THEN Thrown(TypeErrorMessage)
  ELSE Returned(scoreSummary(JSONvalue(settled.body.doc), targetUrl))

\* callLighthouseAPI from the moment fetch has settled: nothing the widget
\* shows changes between its two awaits
callLighthouseAPI(targetUrl, settled) ==
  IF settled.kind = "failure" THEN Thrown(FetchFailedMessage)
  ELSE IF ~ResponseOk(settled)
  THEN Thrown(apiErrorMessage(settled.status, settled.body))
  ELSE IF ~settled.body.parses THEN Thrown(SyntaxErrorMessage)
  ELSE LET data_ == JSONvalue(settled.body.doc)
       IN  IF IsNullish(data_) THEN Thrown(TypeErrorMessage)
           ELSE IF ~Truthy(GetProp(data_, "lighthouseResult"))
           THEN Thrown("No Lighthouse results returned from API")
           ELSE Returned(scoreSummary(data_, targetUrl))

\* the mutation of setLoadingState that shows the loading block and leaves the
\* button and the input as they are
setLoadingStateAdvisory(loading_, isLoading, message) ==
  IF isLoading
  THEN [loading_ EXCEPT !.display = "flex", !.loadingText = message]
  ELSE [loading_ EXCEPT !.display = "none", !.submitDisabled = FALSE,
                        !.submitText = "Analyze Website",
                        !.inputDisabled = FALSE]

\* setLoadingState(container, isLoading, message)
setLoadingState(loading_, isLoading, message) ==
  IF isLoading
  THEN [ display |-> "flex", submitDisabled |-> TRUE,
         submitText |-> "Analyzing...", inputDisabled |-> TRUE,
         loadingText |-> message ]
  ELSE [loading_ EXCEPT !.display = "none", !.submitDisabled = FALSE,
                        !.submitText = "Analyze Website",
                        !.inputDisabled = FALSE]

\* createWidgetHTML: the loading block, button and input as first rendered
InitialLoading ==
  [ display |-> "none", submitDisabled |-> FALSE,
    submitText |-> "Analyze Website", inputDisabled |-> FALSE,
    loadingText |-> "Analyzing website performance..." ]

NoResults == [shown |-> FALSE]

\* createWidgetHTML: the results block as first rendered, its grid empty
InitialResults == [display |-> "none", results |-> NoResults, of |-> 0]

\* createResultsHTML: every panel is rendered with display: none
AllCollapsed == [category \in Categories |-> "none"]

NoClick == [clicked |-> FALSE]

\* the mutation of displayResults that fills the grid only while it is empty
displayResultsOnce(resultsContainer_, results, id) ==
  IF resultsContainer_.display = "block" THEN resultsContainer_
  ELSE [display |-> "block", results |-> results, of |-> id]

\* displayResults(container, results): the grid and the block afterwards; id
\* is the analysis that made the results
displayResults(resultsContainer_, results, id) ==
  [display |-> "block", results |-> results, of |-> id]

\* the mutation of the click handler that does not collapse the previous row
onRowClickKeepPrevious(expandedCategory_, suggestions_, category) ==
  IF expandedCategory_ = Str(category)
  THEN [ expandedCategory |-> Null,
         suggestions |-> [suggestions_ EXCEPT ![category] = "none"] ]
  ELSE [ expandedCategory |-> Str(category),
         suggestions |-> [suggestions_ EXCEPT ![category] = "block"] ]

\* the click handler of the row of a category
onRowClick(expandedCategory_, suggestions_, category) ==
  LET collapsed ==
        IF Truthy(expandedCategory_) /\ expandedCategory_ # Str(category)
        THEN [suggestions_ EXCEPT ![expandedCategory_.str] = "none"]
        ELSE suggestions_
  IN  IF expandedCategory_ = Str(category)
      THEN [ expandedCategory |-> Null,
             suggestions |-> [collapsed EXCEPT ![category] = "none"] ]
      ELSE [ expandedCategory |-> Str(category),
             suggestions |-> [collapsed EXCEPT ![category] = "block"] ]

\* the characters a host may not hold
ForbiddenHost ==
  {" ", "#", "/", ":", "<", ">", "?", "@", "[", "\\", "]", "^", "|", "%"}

Digits == {"0", "1", "2", "3", "4", "5", "6", "7", "8", "9"}

\* new URL(url) does not throw, for a url that starts with http:// or
\* https://: the host, up to the first : / ? or #, is not empty and holds no
\* forbidden character, and the port is digits.  Credentials, bracketed hosts
\* and further slashes after the scheme are not among the texts drawn.
UrlParses(url) ==
  LET from == IF StartsWithAt(url, 1, "https://") THEN 9 ELSE 8
      ends == {i \in from..Len(url) : Char(url, i) \in {"/", "?", "#"}}
      to == IF ends = {} THEN Len(url) ELSE Min(ends) - 1
      colons == {i \in from..to : Char(url, i) = ":"}
      hostEnd == IF colons = {} THEN to ELSE Min(colons) - 1
  IN  /\ hostEnd >= from
      /\ \A i \in from..hostEnd : Char(url, i) \notin ForbiddenHost
      /\ \A i \in (hostEnd + 2)..to : Char(url, i) \in Digits

\* lines 554-572: what the submit handler makes of input.value
normalise(value) ==
  LET trimmed == Trim(value)
      url == IF ~StartsWithAt(trimmed, 1, "http://")
                /\ ~StartsWithAt(trimmed, 1, "https://")
             THEN "https://" \o trimmed ELSE trimmed
  IN  IF trimmed = ""
      THEN [valid |-> FALSE, alert |-> "Please enter a website URL"]
      ELSE IF ~UrlParses(url)
      THEN [ valid |-> FALSE,
             alert |-> "Please enter a valid website URL (e.g., google.com or example.com)" ]
      ELSE [valid |-> TRUE, url |-> url]

-----------------------------------------------------------------------------
(* Inputs *)

\* the grid point of the score n / 100
Hundredths(n) == n * ScoreSteps

PlainDescription == "Elements must be reachable. "
LinkedDescription ==
  "Add a title. [Learn more](https://web.dev/document-title/) or see https://example.com/a, too."

\* the shapes of audit entry the audit maps are drawn from
EntryShapes ==
  { [score |-> Num(0), titled |-> TRUE, description |-> PlainDescription,
     displayValue |-> ""],
    [score |-> Num(Hundredths(49)), titled |-> TRUE,
     description |-> LinkedDescription, displayValue |-> "1.2 s"],
    [score |-> Num(Hundredths(50)), titled |-> TRUE,
     description |-> PlainDescription, displayValue |-> "3 elements"],
    [score |-> Num(ScoreScale), titled |-> TRUE,
     description |-> PlainDescription, displayValue |-> ""],
    [score |-> Num(ScoreScale + 1), titled |-> TRUE,
     description |-> PlainDescription, displayValue |-> ""],
    [score |-> Null, titled |-> TRUE, description |-> PlainDescription,
     displayValue |-> ""],
    [score |-> Undefined, titled |-> TRUE, description |-> PlainDescription,
     displayValue |-> ""],
    [score |-> Num(Hundredths(25)), titled |-> FALSE,
     description |-> PlainDescription, displayValue |-> ""],
    [score |-> Num(Hundredths(25)), titled |-> TRUE, description |-> "",
     displayValue |-> ""] }

\* Lighthouse gives every audit a title of its own
TitleOf(auditId) == "Audit " \o auditId

AuditEntry(auditId, shape) ==
  [ score        |-> shape.score,
    title        |-> IF shape.titled THEN TitleOf(auditId) ELSE "",
    description  |-> shape.description,
    displayValue |-> shape.displayValue ]

\* the audit identifiers the audit maps are drawn over: allowlisted once,
\* allowlisted twice, without a friendly description, and not allowlisted
SampleIds ==
  { "first-contentful-paint", "image-alt", "document-title", "focus-traps",
    "js-libraries", "tap-targets", "network-requests" }

AuditMaps ==
  LET shaped == UNION { [ids -> EntryShapes] :
                        ids \in {s \in SUBSET SampleIds : Cardinality(s) <= MaxAudits} }
  IN  { [auditId \in DOMAIN f |-> AuditEntry(auditId, f[auditId])] : f \in shaped }

\* the fragments the descriptions are made of
Chunks == <<"https://a", "http://", "htt", "p://", "x", " ", ".", ")">>

RECURSIVE Descriptions(_)
Descriptions(n) ==
  IF n = 0 THEN {""}
  ELSE LET shorter == Descriptions(n - 1)
       IN  shorter \cup {Chunks[i] \o d : i \in 1..Len(Chunks), d \in shorter}

\* the inbound calls
Calls == 1..MaxCalls

\* context.env with and without the secret
Environments ==
  { [GOOGLE_PAGESPEED_API_KEY |-> ""], [GOOGLE_PAGESPEED_API_KEY |-> "secret"] }

TargetUrl == <<"url", Str("https://x.test")>>

\* the request bodies: not JSON, null, a number, {}, an empty url, a url alone,
\* what the widget sends, categories that is no array, and a url written twice
RequestBodies ==
  { Unparseable,
    Text(Null),
    Text(Num(42)),
    Text(Obj(<<>>)),
    Text(Obj(<< <<"url", Str("")>> >>)),
    Text(Obj(<<TargetUrl>>)),
    Text(Obj(<<TargetUrl, <<"strategy", Str("mobile")>>,
               <<"categories", defaultCategories>> >>)),
    Text(Obj(<<TargetUrl, <<"categories", Str("seo")>> >>)) }

\* Pages routes only POST requests to onRequestPost
Requests == { [method |-> "POST", body |-> b] : b \in RequestBodies }

\* a preflight: an OPTIONS request, which has no body
Preflights == { [method |-> "OPTIONS", body |-> Unparseable] }

\* the statuses Pages may answer a request with that no function handles
PlatformStatuses == {404, 405}

\* the answer of Pages itself: none of the headers of the module
PlatformResponse(status) ==
  [ status |-> status, body |-> [parses |-> FALSE, empty |-> TRUE],
    cors |-> FALSE, contentType |-> "" ]

LighthousePayload ==
  Obj(<< <<"lighthouseResult",
           Obj(<< <<"categories",
                    Obj(<< <<"performance",
                             Obj(<< <<"score", Num(Hundredths(42))>> >>)>> >>)>>,
                  <<"audits", Obj(<<>>)>> >>)>>,
         <<"loadingExperience", Obj(<< <<"overall_category", Str("FAST")>> >>)>> >>)

\* an upstream error body with a message, and one without
ErrorWithMessage ==
  Obj(<< <<"error", Obj(<< <<"code", Num(400)>>,
                           <<"message", Str("Invalid value")>> >>)>> >>)
ErrorWithoutMessage == Obj(<< <<"error", Str("failed")>> >>)

\* an object that writes a key twice
TwiceWritten == Obj(<< <<"id", Str("a")>>, <<"id", Str("b")>> >>)

\* the responses of the upstream API: successes with a body that is not JSON,
\* null, an object and a result; rejections 400, 403 and 429 with a body that
\* is not JSON, null, an error with a message and one without
UpstreamResponses ==
  { Upstream(200, b) :
      b \in {Unparseable, Text(Null), Text(TwiceWritten), Text(LighthousePayload)} }
  \cup { Upstream(201, Text(LighthousePayload)) }
  \cup { Upstream(400, b) :
           b \in {Unparseable, Text(Null), Text(ErrorWithMessage),
                  Text(ErrorWithoutMessage)} }
  \cup { Upstream(403, b) : b \in {Text(Null), Text(ErrorWithMessage)} }
  \cup { Upstream(429, Text(ErrorWithMessage)) }

\* what fetch settles with: a rejection or a response
FetchOutcomes == {NetworkFailure} \cup UpstreamResponses

\* a score between -1 and 2 on the grid
Scores == (0 - ScoreScale)..(2 * ScoreScale)

\* a result with the four categories and two audits
FullPayload ==
  Obj(<< <<"lighthouseResult",
           Obj(<< <<"categories",
                    Obj(<< <<"performance",
                             Obj(<< <<"score", Num(Hundredths(98) + 5)>> >>)>>,
                           <<"accessibility",
                             Obj(<< <<"score", Num(ScoreScale)>> >>)>>,
                           <<"best-practices",
                             Obj(<< <<"score", Num(Hundredths(50))>> >>)>>,
                           <<"seo", Obj(<< <<"score", Null>> >>)>> >>)>>,
                  <<"audits",
                    Obj(<< <<"image-alt",
                             Obj(<< <<"score", Num(0)>>,
                                    <<"title", Str("Images have alt text")>>,
                                    <<"description", Str(PlainDescription)>> >>)>>,
                           <<"document-title",
                             Obj(<< <<"score", Num(ScoreScale)>>,
                                    <<"title", Str("Document has a title")>>,
                                    <<"description", Str(PlainDescription)>> >>)>>
                        >>)>> >>)>> >>)

\* the keys of the upstream categories
CategoryKeys == {"performance", "accessibility", "best-practices", "seo"}

\* a body with the given categories object
WithCategories(categories) ==
  Obj(<< <<"lighthouseResult",
           Obj(<< <<"categories", categories>>, <<"audits", Obj(<<>>)>> >>)>> >>)

\* the bodies callLighthouseAPI summarises: one category with every score of
\* the grid, with a null score and without a score; no categories; a result
\* that is a string; the two payloads
ScorePayloads ==
  { WithCategories(Obj(<< <<key, Obj(<< <<"score", Num(s)>> >>)>> >>)) :
      key \in CategoryKeys, s \in 0..ScoreScale }
  \cup { WithCategories(Obj(<< <<key, Obj(<< <<"score", Null>> >>)>> >>)) :
           key \in CategoryKeys }
  \cup { WithCategories(Obj(<< <<key, Obj(<<>>)>> >>)) : key \in CategoryKeys }
  \cup { Obj(<< <<"lighthouseResult", Obj(<<>>)>> >>),
         Obj(<< <<"lighthouseResult", Str("done")>> >>),
         LighthousePayload, FullPayload }

\* what the input holds at the submits of the widget under analysis; the
\* input is required, so it is not empty
InputValues == {" ", "example.com", "http://example.com"}

\* the fragments of the texts typed into the input
Fragments ==
  <<"example.com", "exa mple", "http://", "https://", "Https://", " ", "/a",
    ":8080", ":x">>

\* the texts of up to n fragments, the empty text left out
RECURSIVE FragmentTexts(_)
FragmentTexts(n) ==
  IF n = 0 THEN {""}
  ELSE LET shorter == FragmentTexts(n - 1)
       IN  shorter \cup {Fragments[i] \o t : i \in 1..Len(Fragments), t \in shorter}

TypedValues(n) == FragmentTexts(n) \ {""}

\* what the fetch of the Pages Function settles with in a call made for the
\* widget: a rejection, a result, an object without a result, and rejections
\* 400 and 403 with a message
WidgetFetchOutcomes ==
  { NetworkFailure,
    Upstream(200, Text(FullPayload)),
    Upstream(200, Text(TwiceWritten)),
    Upstream(400, Text(ErrorWithMessage)),
    Upstream(403, Text(ErrorWithMessage)) }

\* the Responses onRequestPost can return for the widget's request
ForwarderReplies(targetUrl) ==
  { forward(env_, [method |-> "POST", body |-> requestBody(targetUrl)], outcome) :
      env_ \in Environments, outcome \in WidgetFetchOutcomes }

\* what the widget's fetch settles with: a rejection or a Response of the
\* Pages Function
Settlements(targetUrl) ==
  {NetworkFailure}
    \cup {Upstream(r.status, r.body) : r \in ForwarderReplies(targetUrl)}

\* the analyses of one widget, in the order of their fetch calls
Analyses == 1..MaxSubmits

-----------------------------------------------------------------------------
(* The three functions as state machines: Init draws the argument, the    *)
(* action is the call.                                                     *)

ForwardIdle ==
  /\ env = [GOOGLE_PAGESPEED_API_KEY |-> ""]
  /\ pc = [i \in Calls |-> "idle"]
  /\ request = [i \in Calls |-> [method |-> "", body |-> Unparseable]]
  /\ googleApiUrl = [i \in Calls |-> NoUrl]
  /\ response = [i \in Calls |-> NotFetched]
  /\ reply = [i \in Calls |-> NoResponse]
  /\ fetches = [i \in Calls |-> 0]

ExtractIdle ==
  /\ audits = <<>>
  /\ recommendations = NoRecommendations
  /\ extracted = FALSE

DescribeIdle ==
  /\ description = ""
  /\ processedDesc = processDescription("")
  /\ processed = FALSE

ImpactIdle ==
  /\ score = 0
  /\ impact = ""
  /\ rated = FALSE

ScoreIdle ==
  /\ typed = ""
  /\ data = Null
  /\ scores = NoResults
  /\ summarised = FALSE

\* initWidget: the widget as createWidgetHTML renders it
WidgetIdle ==
  /\ loading = InitialLoading
  /\ timers = <<>>
  /\ inFlight = {}
  /\ submits = 0
  /\ fetchCalls = 0
  /\ submitted = [input |-> "", sent |-> FALSE, url |-> ""]
  /\ analysis = [id \in Analyses |-> "none"]
  /\ alerts = [id \in Analyses |-> 0]
  /\ lastAlert = ""
  /\ lastSettled = [id |-> 0, settled |-> NotFetched]
  /\ resultsContainer = InitialResults
  /\ expandedCategory = Null
  /\ suggestions = AllCollapsed
  /\ lastClick = NoClick

InitExtract ==
  /\ audits \in AuditMaps
  /\ recommendations = NoRecommendations
  /\ extracted = FALSE
  /\ DescribeIdle
  /\ ImpactIdle
  /\ ForwardIdle
  /\ ScoreIdle
  /\ WidgetIdle

Extract ==
  /\ ~extracted
  /\ recommendations' = extractApiRecommendations(audits)
  /\ extracted' = TRUE
  /\ UNCHANGED <<audits, describeVars, impactVars, forwardVars, scoreVars,
               widgetVars>>

NextExtract == Extract

SpecExtract == InitExtract /\ [][NextExtract]_vars

\* processDescription is called with a friendly description, which is never
\* empty: the filter requires audit.description and no table text is empty
InitDescribe ==
  /\ description \in Descriptions(MaxChunks) \ {""}
  /\ processedDesc = processDescription("")
  /\ processed = FALSE
  /\ ExtractIdle
  /\ ImpactIdle
  /\ ForwardIdle
  /\ ScoreIdle
  /\ WidgetIdle

Describe ==
  /\ ~processed
  /\ processedDesc' = processDescription(description)
  /\ processed' = TRUE
  /\ UNCHANGED <<description, extractVars, impactVars, forwardVars, scoreVars,
               widgetVars>>

NextDescribe == Describe

SpecDescribe == InitDescribe /\ [][NextDescribe]_vars

\* getImpactLevel is called with a number below 1: the filter requires
\* audit.score < 1
InitImpact ==
  /\ score \in {s \in Scores : s < ScoreScale}
  /\ impact = ""
  /\ rated = FALSE
  /\ ExtractIdle
  /\ DescribeIdle
  /\ ForwardIdle
  /\ ScoreIdle
  /\ WidgetIdle

Rate ==
  /\ ~rated
  /\ impact' = getImpactLevel(score)
  /\ rated' = TRUE
  /\ UNCHANGED <<score, extractVars, describeVars, forwardVars, scoreVars,
               widgetVars>>

NextImpact == Rate

SpecImpact == InitImpact /\ [][NextImpact]_vars

-----------------------------------------------------------------------------
(* The Pages Function under overlapping inbound calls *)

Init ==
  /\ env \in Environments
  /\ pc = [i \in Calls |-> "idle"]
  /\ request = [i \in Calls |-> [method |-> "", body |-> Unparseable]]
  /\ googleApiUrl = [i \in Calls |-> NoUrl]
  /\ response = [i \in Calls |-> NotFetched]
  /\ reply = [i \in Calls |-> NoResponse]
  /\ fetches = [i \in Calls |-> 0]
  /\ ExtractIdle
  /\ DescribeIdle
  /\ ImpactIdle
  /\ ScoreIdle
  /\ WidgetIdle

\* Pages calls onRequestPost with a request; the function runs to
\* request.json() or returns
Invoke(i) ==
  /\ pc[i] = "idle"
  /\ \E request_ \in Requests :
       LET step == onInvoke(env, request_)
       IN  /\ HandlerFor(request_.method) = "onRequestPost"
           /\ request' = [request EXCEPT ![i] = request_]
           /\ pc' = [pc EXCEPT ![i] = step.next]
           /\ reply' = [reply EXCEPT ![i] = step.reply]
  /\ UNCHANGED <<env, googleApiUrl, response, fetches>>
  /\ UNCHANGED <<extractVars, describeVars, impactVars, scoreVars, widgetVars>>

\* Pages receives a preflight: the module exports no handler for its method,
\* so no code of the module runs and Pages answers for itself
NotHandled(i) ==
  /\ pc[i] = "idle"
  /\ \E request_ \in Preflights, status \in PlatformStatuses :
       /\ HandlerFor(request_.method) = "none"
       /\ request' = [request EXCEPT ![i] = request_]
       /\ pc' = [pc EXCEPT ![i] = "unrouted"]
       /\ reply' = [reply EXCEPT ![i] = PlatformResponse(status)]
  /\ UNCHANGED <<env, googleApiUrl, response, fetches>>
  /\ UNCHANGED <<extractVars, describeVars, impactVars, scoreVars, widgetVars>>

\* request.json() settles; the function runs to fetch(googleApiUrl) or returns
RequestJsonSettled(i) ==
  /\ pc[i] = "requestJson"
  /\ LET step == onRequestJson(env, request[i].body)
     IN  /\ pc' = [pc EXCEPT ![i] = step.next]
         /\ reply' = [reply EXCEPT ![i] = step.reply]
         /\ googleApiUrl' = [googleApiUrl EXCEPT ![i] = step.url]
         /\ fetches' = [fetches EXCEPT ![i] = IF step.next = "fetch" THEN @ + 1 ELSE @]
  /\ UNCHANGED <<env, request, response>>
  /\ UNCHANGED <<extractVars, describeVars, impactVars, scoreVars, widgetVars>>

\* the mutation of FetchSettled that fetches once more after a rejection
FetchSettledWithRetry(i) ==
  /\ pc[i] = "fetch"
  /\ \E outcome \in FetchOutcomes :
       IF outcome.kind = "failure" /\ fetches[i] < 2
       THEN /\ fetches' = [fetches EXCEPT ![i] = @ + 1]
            /\ UNCHANGED <<pc, reply, response>>
       ELSE /\ response' = [response EXCEPT ![i] = outcome]
            /\ pc' = [pc EXCEPT ![i] = onFetch(outcome).next]
            /\ reply' = [reply EXCEPT ![i] = onFetch(outcome).reply]
            /\ UNCHANGED fetches
  /\ UNCHANGED <<env, request, googleApiUrl>>
  /\ UNCHANGED <<extractVars, describeVars, impactVars, scoreVars, widgetVars>>

\* fetch settles; the function runs to response.json() or returns
FetchSettled(i) ==
  /\ pc[i] = "fetch"
  /\ \E outcome \in FetchOutcomes :
       /\ response' = [response EXCEPT ![i] = outcome]
       /\ pc' = [pc EXCEPT ![i] = onFetch(outcome).next]
       /\ reply' = [reply EXCEPT ![i] = onFetch(outcome).reply]
  /\ UNCHANGED <<env, request, googleApiUrl, fetches>>
  /\ UNCHANGED <<extractVars, describeVars, impactVars, scoreVars, widgetVars>>

\* response.json() of a response that is not ok settles; the function returns
ErrorJsonSettled(i) ==
  /\ pc[i] = "errorJson"
  /\ pc' = [pc EXCEPT ![i] = "done"]
  /\ reply' = [reply EXCEPT ![i] = onErrorJson(response[i])]
  /\ UNCHANGED <<env, request, googleApiUrl, response, fetches>>
  /\ UNCHANGED <<extractVars, describeVars, impactVars, scoreVars, widgetVars>>

\* response.json() of an ok response settles; the function returns
DataJsonSettled(i) ==
  /\ pc[i] = "dataJson"
  /\ pc' = [pc EXCEPT ![i] = "done"]
  /\ reply' = [reply EXCEPT ![i] = onDataJson(response[i])]
  /\ UNCHANGED <<env, request, googleApiUrl, response, fetches>>
  /\ UNCHANGED <<extractVars, describeVars, impactVars, scoreVars, widgetVars>>

Next ==
  \E i \in Calls :
    \/ Invoke(i)
    \/ NotHandled(i)
    \/ RequestJsonSettled(i)
    \/ FetchSettled(i)
    \/ ErrorJsonSettled(i)
    \/ DataJsonSettled(i)

Spec == Init /\ [][Next]_vars

-----------------------------------------------------------------------------
(* callLighthouseAPI's score summary as a state machine *)

InitScores ==
  /\ typed = ""
  /\ data \in ScorePayloads
  /\ scores = NoResults
  /\ summarised = FALSE
  /\ ExtractIdle
  /\ DescribeIdle
  /\ ImpactIdle
  /\ ForwardIdle
  /\ WidgetIdle

Summarise ==
  /\ ~summarised
  /\ scores' = scoreSummary(data, "https://example.com")
  /\ summarised' = TRUE
  /\ UNCHANGED <<data, typed, extractVars, describeVars, impactVars,
                 forwardVars, widgetVars>>

NextScores == Summarise

SpecScores == InitScores /\ [][NextScores]_vars

-----------------------------------------------------------------------------
(* One widget: the submit handler cut at its await, the two timers, the    *)
(* clock and the clicks on the result rows                                 *)

InitWidget ==
  /\ WidgetIdle
  /\ ExtractIdle
  /\ DescribeIdle
  /\ ImpactIdle
  /\ ForwardIdle
  /\ ScoreIdle

StatusTimer(id) ==
  [callback |-> "status", delay |-> StatusDelay, id |-> id, results |-> NoResults]

DisplayTimer(id, results) ==
  [callback |-> "display", delay |-> DisplayDelay, id |-> id, results |-> results]

\* lines 551-578: the submit handler reads value from the input and runs to
\* its await or returns
onSubmit(value) ==
  /\ submits' = submits + 1
  /\ LET normalised == normalise(value)
         id == fetchCalls + 1
     IN  IF normalised.valid
         THEN /\ loading' = setLoadingState(loading, TRUE,
                                            "Preparing to analyze website...")
              /\ timers' = Append(timers, StatusTimer(id))
              /\ inFlight' = inFlight \cup {[id |-> id, url |-> normalised.url]}
              /\ fetchCalls' = id
              /\ analysis' = [analysis EXCEPT ![id] = "outstanding"]
              /\ submitted' = [input |-> value, sent |-> TRUE,
                               url |-> normalised.url]
              /\ UNCHANGED lastAlert
         ELSE /\ lastAlert' = normalised.alert
              /\ submitted' = [input |-> value, sent |-> FALSE, url |-> ""]
              /\ UNCHANGED <<loading, timers, inFlight, fetchCalls, analysis>>
  /\ UNCHANGED <<alerts, lastSettled, resultsContainer, expandedCategory,
                 suggestions, lastClick>>
  /\ UNCHANGED <<extractVars, describeVars, impactVars, forwardVars, scoreVars>>

\* the form is submitted, which the browser allows while its submit button is
\* enabled
Submit ==
  /\ ~loading.submitDisabled
  /\ submits < MaxSubmits
  /\ \E value \in InputValues : onSubmit(value)

\* the fetch of an analysis settles; callLighthouseAPI returns or throws and
\* the handler runs to its end
Settle ==
  /\ \E call \in inFlight : \E settled \in Settlements(call.url) :
       LET outcome == callLighthouseAPI(call.url, settled)
       IN  /\ inFlight' = inFlight \ {call}
           /\ lastSettled' = [id |-> call.id, settled |-> settled]
           /\ IF outcome.threw
              THEN /\ lastAlert' =
                        "Error: " \o (IF outcome.message # "" THEN outcome.message
                                      ELSE "Error analyzing website. Please try again.")
                   /\ alerts' = [alerts EXCEPT ![call.id] = @ + 1]
                   /\ loading' = setLoadingState(loading, FALSE,
                                                 "Analyzing website performance...")
                   /\ analysis' = [analysis EXCEPT ![call.id] = "failed"]
                   /\ UNCHANGED timers
              ELSE /\ loading' = setLoadingState(loading, TRUE,
                                                 "Processing results...")
                   /\ timers' = Append(timers, DisplayTimer(call.id, outcome.value))
                   /\ analysis' = [analysis EXCEPT ![call.id] = "succeeded"]
                   /\ UNCHANGED <<lastAlert, alerts>>
  /\ UNCHANGED <<submits, fetchCalls, submitted, resultsContainer,
                 expandedCategory, suggestions, lastClick>>
  /\ UNCHANGED <<extractVars, describeVars, impactVars, forwardVars, scoreVars>>

\* the timers whose delay has passed
Due == {k \in 1..Len(timers) : timers[k].delay = 0}

Without(k) == SubSeq(timers, 1, k - 1) \o SubSeq(timers, k + 1, Len(timers))

\* the callback of line 577 runs: of the due timers the oldest runs first
StatusTimerFires ==
  /\ Due # {}
  /\ timers[Min(Due)].callback = "status"
  /\ timers' = Without(Min(Due))
  /\ loading' = setLoadingState(loading, TRUE, "Running Lighthouse analysis...")
  /\ UNCHANGED <<inFlight, submits, fetchCalls, submitted, analysis, alerts,
                 lastAlert, lastSettled, resultsContainer, expandedCategory,
                 suggestions, lastClick>>
  /\ UNCHANGED <<extractVars, describeVars, impactVars, forwardVars, scoreVars>>

\* the callback of lines 581-584 runs: displayResults renders every panel
\* collapsed and setupResultClickHandlers starts a new expandedCategory
DisplayTimerFires ==
  /\ Due # {}
  /\ timers[Min(Due)].callback = "display"
  /\ LET timer == timers[Min(Due)]
     IN  /\ resultsContainer' =
              displayResults(resultsContainer, timer.results, timer.id)
         /\ analysis' = [analysis EXCEPT ![timer.id] = "displayed"]
  /\ timers' = Without(Min(Due))
  /\ suggestions' = AllCollapsed
  /\ expandedCategory' = Null
  /\ lastClick' = NoClick
  /\ loading' = setLoadingState(loading, FALSE, "Analyzing website performance...")
  /\ UNCHANGED <<inFlight, submits, fetchCalls, submitted, alerts, lastAlert,
                 lastSettled>>
  /\ UNCHANGED <<extractVars, describeVars, impactVars, forwardVars, scoreVars>>

\* TickMs milliseconds pass; a callback that is due runs before more time does
Tick ==
  /\ timers # <<>>
  /\ Due = {}
  /\ timers' = [k \in 1..Len(timers) |->
                  [timers[k] EXCEPT !.delay = @ - TickMs]]
  /\ UNCHANGED <<loading, inFlight, submits, fetchCalls, submitted, analysis,
                 alerts, lastAlert, lastSettled, resultsContainer,
                 expandedCategory, suggestions, lastClick>>
  /\ UNCHANGED <<extractVars, describeVars, impactVars, forwardVars, scoreVars>>

\* the row of a category is clicked; the rows exist once results are shown
Click(category) ==
  /\ resultsContainer.display = "block"
  /\ LET after == onRowClick(expandedCategory, suggestions, category)
     IN  /\ expandedCategory' = after.expandedCategory
         /\ suggestions' = after.suggestions
  /\ lastClick' = [clicked |-> TRUE, category |-> category,
                   before |-> expandedCategory]
  /\ UNCHANGED <<loading, timers, inFlight, submits, fetchCalls, submitted,
                 analysis, alerts, lastAlert, lastSettled, resultsContainer>>
  /\ UNCHANGED <<extractVars, describeVars, impactVars, forwardVars, scoreVars>>

\* the first submit of a widget, for every text the input may hold
InitSubmit ==
  /\ typed \in TypedValues(MaxTyped)
  /\ data = Null
  /\ scores = NoResults
  /\ summarised = FALSE
  /\ WidgetIdle
  /\ ExtractIdle
  /\ DescribeIdle
  /\ ImpactIdle
  /\ ForwardIdle

SubmitTyped ==
  /\ ~loading.submitDisabled
  /\ submits = 0
  /\ onSubmit(typed)

NextSubmit == SubmitTyped

SpecSubmit == InitSubmit /\ [][NextSubmit]_vars

NextWidget ==
  \/ Submit
  \/ Settle
  \/ StatusTimerFires
  \/ DisplayTimerFires
  \/ Tick
  \/ \E category \in Categories : Click(category)

SpecWidget == InitWidget /\ [][NextWidget]_vars

-----------------------------------------------------------------------------
(* Properties of onRequestPost (Spec) *)

Done(i) == pc[i] = "done"
\* Pages has called onRequestPost for the request
Called(i) == pc[i] \notin {"idle", "unrouted"}
Configured == env.GOOGLE_PAGESPEED_API_KEY # ""

\* the Response carries JSON of the shape {error: <value>}
IsErrorBody(r, value) ==
  /\ r.body.parses
  /\ JSONvalue(r.body.doc) = Obj(<< <<"error", value>> >>)

\* the Response carries JSON of the shape {error: <some string>}
HasErrorString(r) ==
  /\ r.body.parses
  /\ JSONvalue(r.body.doc).type = "object"
  /\ Len(JSONvalue(r.body.doc).members) = 1
  /\ JSONvalue(r.body.doc).members[1][1] = "error"
  /\ JSONvalue(r.body.doc).members[1][2].type = "string"

\* the request body is JSON of a value that has no url
UrlAbsent(i) ==
  /\ request[i].body.parses
  /\ ~IsNullish(JSONvalue(request[i].body.doc))
  /\ GetProp(JSONvalue(request[i].body.doc), "url") = Undefined

\* the request body is JSON of a value with a url
UrlPresent(i) ==
  /\ request[i].body.parses
  /\ ~IsNullish(JSONvalue(request[i].body.doc))
  /\ Truthy(GetProp(JSONvalue(request[i].body.doc), "url"))

\* C6: without a credential every call is answered 500 with {error: "API key
\* not configured"}, whatever its body; with a credential a body without url
\* is answered 400; neither makes an upstream call.
C6_RejectedBeforeUpstream ==
  \A i \in Calls :
    /\ (Called(i) /\ ~Configured) =>
         /\ Done(i)
         /\ reply[i].status = 500
         /\ IsErrorBody(reply[i], Str("API key not configured"))
         /\ fetches[i] = 0
         /\ response[i] = NotFetched
    /\ (Called(i) /\ Configured /\ UrlAbsent(i)) =>
         /\ fetches[i] = 0
         /\ response[i] = NotFetched
         /\ Done(i) => (reply[i].status = 400 /\ HasErrorString(reply[i]))

\* forward({}) with a credential was answered 400
C6_Witness ==
  \E i \in Calls :
    /\ Done(i)
    /\ Configured
    /\ request[i].body = Text(Obj(<<>>))
    /\ reply[i].status = 400
    /\ fetches[i] = 0

\* the response of the upstream API was not a success
UpstreamRejected(i) ==
  /\ response[i].kind = "response"
  /\ ~ResponseOk(response[i])

\* the message of the upstream error body, when it has one
HasUpstreamMessage(body) ==
  /\ body.parses
  /\ ~IsNullish(JSONvalue(body.doc))
  /\ ~IsNullish(GetProp(JSONvalue(body.doc), "error"))
  /\ Truthy(GetProp(GetProp(JSONvalue(body.doc), "error"), "message"))

UpstreamMessage(body) == GetProp(GetProp(JSONvalue(body.doc), "error"), "message")

\* C7: for every upstream response that is not a success the answer carries
\* the upstream status and an {error} message chosen by status: 403 the
\* credential message, 429 the rate-limit message, any other status the
\* upstream error message when the body has one and the generic label otherwise.
C7_UpstreamRejectionTranslated ==
  \A i \in Calls :
    (Done(i) /\ UpstreamRejected(i)) =>
      /\ reply[i].status = response[i].status
      /\ IsErrorBody(reply[i],
           CASE response[i].status = 403 ->
                  Str("API key is invalid or quota exceeded")
             [] response[i].status = 429 ->
                  Str("API rate limit exceeded. Please try again later")
             [] OTHER ->
                  IF HasUpstreamMessage(response[i].body)
                  THEN UpstreamMessage(response[i].body)
                  ELSE Str("API error occurred"))

\* C8: an upstream success with a JSON payload is answered 200 with that
\* payload, nothing added, removed or reshaped.
C8_SuccessPayloadForwarded ==
  \A i \in Calls :
    (Done(i) /\ response[i].kind = "response" /\ ResponseOk(response[i])
       /\ response[i].body.parses) =>
      /\ reply[i].status = 200
      /\ reply[i].body.parses
      /\ JSONvalue(reply[i].body.doc) = JSONvalue(response[i].body.doc)

\* an upstream 201 carrying a Lighthouse result was answered
C8_Witness ==
  \E i \in Calls :
    /\ Done(i)
    /\ response[i] = Upstream(201, Text(LighthousePayload))
    /\ reply[i].status = 200

\* categories is left out or is an array
CategoriesUsable(i) ==
  GetProp(JSONvalue(request[i].body.doc), "categories").type \in {"undefined", "array"}

\* two calls given the same request and the same upstream outcome returned the
\* same Response
SameInSameOut ==
  \A i, j \in Calls :
    (Done(i) /\ Done(j) /\ request[i] = request[j] /\ response[i] = response[j])
      => reply[i] = reply[j]

C10_InternalFaultAnswered500 ==
  \A i \in Calls :
    Done(i) =>
      /\ reply[i] # NoResponse
      /\ ( \/ ~request[i].body.parses
           \/ request[i].body = Text(Null)
           \/ response[i] = NetworkFailure )
         => (reply[i].status = 500 /\ HasErrorString(reply[i]))

\* C10 as stated: every request body that is not JSON or not an object, and a
\* network failure of the upstream call, are answered 500.
C10_AsStated ==
  \A i \in Calls :
    Done(i) =>
      /\ reply[i] # NoResponse
      /\ ( \/ ~request[i].body.parses
           \/ JSONvalue(request[i].body.doc).type \in {"null", "number", "string"}
           \/ response[i] = NetworkFailure )
         => (reply[i].status = 500 /\ HasErrorString(reply[i]))

\* with a credential, a call whose fetch was rejected was answered 500
C10_Witness ==
  \E i \in Calls :
    /\ Done(i)
    /\ Configured
    /\ response[i] = NetworkFailure
    /\ reply[i] = catchBlock

\* C17: an OPTIONS request to the endpoint is answered with the CORS headers
\* and no body, without a read of the credential or the body and without an
\* upstream call.
C17_PreflightAnswered ==
  \A i \in Calls :
    (request[i].method = "OPTIONS" /\ pc[i] # "idle") =>
      /\ reply[i] = PreflightResponse
      /\ fetches[i] = 0
      /\ response[i] = NotFetched

-----------------------------------------------------------------------------
(* Properties of extractApiRecommendations (SpecExtract) *)

\* the Recommendation r is the one the audit auditId would give: it carries
\* auditId's title
IsFor(r, auditId) ==
  r.title = IF auditId \in DOMAIN audits THEN audits[auditId].title
            ELSE TitleOf(auditId)

\* absent from the audit map, score null, score 1 or more, or no title or no
\* description
Skipped(auditId) ==
  \/ auditId \notin DOMAIN audits
  \/ audits[auditId].score = Null
  \/ audits[auditId].score.type = "number" /\ audits[auditId].score.num >= ScoreScale
  \/ audits[auditId].title = ""
  \/ audits[auditId].description = ""

\* present with a numeric score below 1, a title and a description
Qualifying(auditId) ==
  /\ ~Skipped(auditId)
  /\ audits[auditId].score.type = "number"

\* C1: no category holds a Recommendation for an allowlisted audit that is
\* absent from the audit map, has score null, has score 1 or more, or lacks a
\* title or a description; the call returns for every audit map.
C1_SkippedAuditsGiveNothing ==
  extracted =>
    \A c \in Categories :
      /\ \A i \in 1..Len(Allowlist(c)) :
           Skipped(Allowlist(c)[i]) =>
             \A k \in 1..Len(recommendations[c]) :
               ~IsFor(recommendations[c][k], Allowlist(c)[i])
      /\ Len(recommendations[c]) <=
           Cardinality({i \in 1..Len(Allowlist(c)) : ~Skipped(Allowlist(c)[i])})

\* a category got a Recommendation while another audit of its allowlist, present
\* in the map, was skipped
C1_Witness ==
  /\ extracted
  /\ \E c \in Categories :
       /\ Len(recommendations[c]) >= 1
       /\ \E i \in 1..Len(Allowlist(c)) :
            Allowlist(c)[i] \in DOMAIN audits /\ Skipped(Allowlist(c)[i])

\* C2: each category's output holds exactly one Recommendation per qualifying
\* audit of its allowlist, in the allowlist's order whatever the scores; an
\* audit on two allowlists gives one in each.
C2_OnePerQualifyingInAllowlistOrder ==
  extracted =>
    \A c \in Categories :
      LET qualifying == SelectSeq(Allowlist(c), LAMBDA id : Qualifying(id))
      IN  /\ Len(recommendations[c]) = Len(qualifying)
          /\ \A k \in 1..Len(qualifying) :
               /\ IsFor(recommendations[c][k], qualifying[k])
               /\ recommendations[c][k].score =
                    RoundPercent(audits[qualifying[k]].score.num)

\* image-alt and document-title both qualify: accessibility lists them in one
\* order and seo in the other, and the higher score comes first in one of them
C2_Witness ==
  /\ extracted
  /\ Len(recommendations["accessibility"]) = 2
  /\ Len(recommendations["seo"]) = 2
  /\ IsFor(recommendations["accessibility"][1], "image-alt")
  /\ IsFor(recommendations["seo"][1], "document-title")
  /\ recommendations["accessibility"][1].score
       # recommendations["accessibility"][2].score

\* the text written last for "document-title" in getFriendlyDescription
DocumentTitleLastDeclared ==
  "Your page title is missing or not optimized, which hurts your search engine rankings."

\* the URL pattern occurs in s at position i: a scheme followed by a character
\* that is not a URL end
UrlOccursAt(s, i) ==
  \/ StartsWithAt(s, i, "http://") /\ i + 7 <= Len(s) /\ ~IsUrlEnd(Char(s, i + 7))
  \/ StartsWithAt(s, i, "https://") /\ i + 8 <= Len(s) /\ ~IsUrlEnd(Char(s, i + 8))

UrlOccurrences(s) == {i \in 1..Len(s) : UrlOccursAt(s, i)}

\* the leftmost occurrence of the URL pattern in s, up to its URL end
FirstUrl(s) ==
  LET p == Min(UrlOccurrences(s))
      ends == {j \in (p + 7)..Len(s) :
                 \A k \in (p + 7)..j : ~IsUrlEnd(Char(s, k))}
  IN  SubSeq(s, p, Max(ends))

\* C5: the friendly description depends on the audit identifier alone:
\* document-title gets the text declared last in the table in accessibility and
\* in seo alike, and an identifier without table entry (focus-traps) gets the
\* audit's own description.
C5_FriendlyDescriptionByIdentifier ==
  extracted =>
    /\ \A c \in {"accessibility", "seo"} :
         \A k \in 1..Len(recommendations[c]) :
           IsFor(recommendations[c][k], "document-title") =>
             /\ recommendations[c][k].description = DocumentTitleLastDeclared
             /\ recommendations[c][k].learnMoreUrl = Null
    /\ \A k \in 1..Len(recommendations["accessibility"]) :
         IsFor(recommendations["accessibility"][k], "focus-traps") =>
           LET own == audits["focus-traps"].description
           IN  IF UrlOccurrences(own) = {}
               THEN /\ recommendations["accessibility"][k].description = own
                    /\ recommendations["accessibility"][k].learnMoreUrl = Null
               ELSE recommendations["accessibility"][k].learnMoreUrl
                      = Str(FirstUrl(own))

\* document-title and focus-traps both gave a Recommendation
C5_Witness ==
  /\ extracted
  /\ Len(recommendations["seo"]) = 1
  /\ Len(recommendations["accessibility"]) = 2
  /\ IsFor(recommendations["seo"][1], "document-title")
  /\ IsFor(recommendations["accessibility"][1], "document-title")
  /\ IsFor(recommendations["accessibility"][2], "focus-traps")

-----------------------------------------------------------------------------
(* Properties of getImpactLevel (SpecImpact) *)

\* C3: score 0 gives High, a score strictly between 0 and 0.5 gives Medium, a
\* score from 0.5 up to (not including) 1 gives Low; 0.49 gives Medium and 0.5
\* gives Low.
C3_ImpactByScore ==
  rated =>
    /\ score = 0 => impact = "High"
    /\ (0 < score /\ 2 * score < ScoreScale) => impact = "Medium"
    /\ (2 * score >= ScoreScale /\ score < ScoreScale) => impact = "Low"
    /\ score = Hundredths(49) => impact = "Medium"
    /\ score = Hundredths(50) => impact = "Low"

\* getImpactLevel was called with exactly 0.5
C3_Witness ==
  /\ rated
  /\ score = Hundredths(50)
  /\ impact = "Low"

-----------------------------------------------------------------------------
(* Properties of processDescription (SpecDescribe) *)

\* description and learnMoreUrl of the Recommendation, as
\* extractApiRecommendations reads them off processDescription's return value
RecommendationDescription == processedDesc.text
RecommendationLearnMoreUrl ==
  IF processedDesc.type = "object" THEN processedDesc.learnMoreUrl ELSE Null

\* C4, as amended: with at least one URL in the description, learnMoreUrl is
\* the first URL and no occurrence of the URL pattern is left in the output
\* text; with no URL, learnMoreUrl is null and the output text is the input
\* unchanged, surrounding whitespace included.
C4_UrlStripping ==
  processed =>
    IF UrlOccurrences(description) # {}
    THEN /\ RecommendationLearnMoreUrl = Str(FirstUrl(description))
         /\ UrlOccurrences(RecommendationDescription) = {}
    ELSE /\ RecommendationLearnMoreUrl = Null
         /\ RecommendationDescription = description

\* C4 as stated: with no URL the output text equals the trimmed input.
C4_AsStated ==
  processed =>
    IF UrlOccurrences(description) # {}
    THEN /\ RecommendationLearnMoreUrl = Str(FirstUrl(description))
         /\ UrlOccurrences(RecommendationDescription) = {}
    ELSE /\ RecommendationLearnMoreUrl = Null
         /\ RecommendationDescription = Trim(description)

\* a description with two URLs apart from each other was processed and text
\* is left
C4_Witness ==
  /\ processed
  /\ \E p, q \in UrlOccurrences(description) :
       \E j \in (p + 1)..(q - 1) : IsUrlEnd(Char(description, j))
  /\ RecommendationDescription # ""

-----------------------------------------------------------------------------
(* Properties of the widget (SpecWidget) *)

\* an analysis whose fetch has not settled
Outstanding(id) == \E call \in inFlight : call.id = id

\* C11: while an analysis request of the widget is outstanding its submit
\* button and its input are disabled, and at most one request is in flight.
C11_DisabledWhileOutstanding ==
  /\ inFlight # {} => (loading.submitDisabled /\ loading.inputDisabled)
  /\ Cardinality(inFlight) <= 1

\* the second analysis is outstanding while the status timer of the first,
\* which failed, is still pending
C11_Witness ==
  /\ Outstanding(2)
  /\ analysis[1] = "failed"
  /\ \E k \in 1..Len(timers) : timers[k].id = 1 /\ timers[k].callback = "status"

\* the body of a Response holds a lighthouseResult
HasResult(body) ==
  /\ body.parses
  /\ ~IsNullish(JSONvalue(body.doc))
  /\ Truthy(GetProp(JSONvalue(body.doc), "lighthouseResult"))

\* a transport failure, an error response of the Pages Function, or an ok
\* response without the lighthouseResult payload
Failure(settled) ==
  \/ settled.kind = "failure"
  \/ settled.kind = "response" /\ ~ResponseOk(settled)
  \/ settled.kind = "response" /\ ResponseOk(settled) /\ ~HasResult(settled.body)

\* the last alert was raised for the analysis that settled last: that analysis
\* is the latest and the latest submit began it
AlertOfLastSettled ==
  /\ lastSettled.id # 0
  /\ lastSettled.id = fetchCalls
  /\ submitted.sent

\* C12: a failed analysis is terminal: every fetch was begun by a submit, the
\* failed analysis has raised exactly one alert, which carries the message of
\* its error, and its results are neither displayed nor waiting for display.
C12_FailureIsTerminal ==
  /\ Cardinality({id \in Analyses : analysis[id] # "none"}) = fetchCalls
  /\ fetchCalls <= submits
  /\ (lastSettled.id # 0 /\ Failure(lastSettled.settled)) =>
        analysis[lastSettled.id] = "failed"
  /\ \A id \in Analyses :
       analysis[id] = "failed" =>
         /\ alerts[id] = 1
         /\ resultsContainer.of # id
         /\ \A k \in 1..Len(timers) :
              timers[k].id = id => timers[k].callback = "status"
  /\ (AlertOfLastSettled /\ Failure(lastSettled.settled)) =>
       LET settled == lastSettled.settled
       IN  CASE settled.kind = "failure" ->
                  lastAlert = "Error: " \o FetchFailedMessage
             [] settled.kind = "response" /\ ~ResponseOk(settled) ->
                  StartsWithAt(lastAlert, 1, "Error: API ")
             [] OTHER ->
                  lastAlert = "Error: No Lighthouse results returned from API"

\* the second analysis got an ok response without a lighthouseResult while
\* the results of the first are displayed
C12_Witness ==
  /\ lastSettled.id = 2
  /\ lastSettled.settled.kind = "response"
  /\ ResponseOk(lastSettled.settled)
  /\ ~HasResult(lastSettled.settled.body)
  /\ analysis[2] = "failed"
  /\ alerts[2] = 1
  /\ resultsContainer.of = 1
  /\ lastAlert = "Error: No Lighthouse results returned from API"

\* text holds part somewhere
Contains(text, part) == \E i \in 1..(Len(text) + 1) : StartsWithAt(text, i, part)

\* the string of a body of the shape {error: <string>}
ForwarderMessage(body) == GetProp(JSONvalue(body.doc), "error").str

\* C13: when an error response of the Pages Function with a status other than
\* 403 and 429 reaches the widget, the alert carries the message the function
\* placed in its {error: string} body.
C13_AlertCarriesForwarderMessage ==
  ( /\ AlertOfLastSettled
    /\ lastSettled.settled.kind = "response"
    /\ ~ResponseOk(lastSettled.settled)
    /\ lastSettled.settled.status \notin {403, 429}
    /\ HasErrorString(lastSettled.settled) ) =>
      Contains(lastAlert, ForwarderMessage(lastSettled.settled.body))

-----------------------------------------------------------------------------
(* Properties of the submit handler (SpecSubmit) *)

Letters ==
  { "a", "b", "c", "d", "e", "f", "g", "h", "i", "j", "k", "l", "m", "n", "o",
    "p", "q", "r", "s", "t", "u", "v", "w", "x", "y", "z", "A", "B", "C", "D",
    "E", "F", "G", "H", "I", "J", "K", "L", "M", "N", "O", "P", "Q", "R", "S",
    "T", "U", "V", "W", "X", "Y", "Z" }

\* text begins with a scheme: letters followed by ://
HasScheme(text) ==
  \E i \in 2..Len(text) :
    /\ StartsWithAt(text, i, "://")
    /\ \A j \in 1..(i - 1) : Char(text, j) \in Letters

\* C14: on submit the URL sent starts with http:// or https://; an input
\* without a scheme is sent as https:// followed by the trimmed input, an
\* input that already has a scheme is sent unchanged, and an empty or
\* unparseable input sends no request and leaves the loading state untouched.
C14_UrlNormalised ==
  submits = 1 =>
    /\ submitted.sent =>
         /\ \/ StartsWithAt(submitted.url, 1, "http://")
            \/ StartsWithAt(submitted.url, 1, "https://")
         /\ ~HasScheme(Trim(typed)) => submitted.url = "https://" \o Trim(typed)
         /\ HasScheme(Trim(typed)) => submitted.url = Trim(typed)
         /\ inFlight = {[id |-> 1, url |-> submitted.url]}
    /\ Trim(typed) = "" => ~submitted.sent
    /\ ~submitted.sent =>
         /\ inFlight = {}
         /\ fetchCalls = 0
         /\ loading = InitialLoading
         /\ timers = <<>>

-----------------------------------------------------------------------------
(* Properties of the score summary (SpecScores) *)

\* the key of the score summary for an upstream category
SummaryKey(key) == IF key = "best-practices" THEN "bestPractices" ELSE key

\* the score the body holds for a category, Undefined where it holds none
UpstreamScore(key) ==
  LET categories == GetProp(GetProp(data, "lighthouseResult"), "categories")
      category == GetProp(categories, key)
  IN  GetProp(category, "score")

\* C15: each of the four scores of the summary is the upstream score of its
\* category scaled to the nearest whole percentage between 0 and 100, and 0
\* for a category the body does not hold.
C15_ScoresArePercentages ==
  summarised =>
    \A key \in CategoryKeys :
      LET percent == scores[SummaryKey(key)]
          upstream == UpstreamScore(key)
      IN  /\ percent \in 0..100
          /\ upstream.type = "number" =>
               /\ 2 * (100 * upstream.num - percent * ScoreScale) <= ScoreScale
               /\ 2 * (percent * ScoreScale - 100 * upstream.num) <= ScoreScale
          /\ upstream.type # "number" => percent = 0

\* a performance score of 0.42 was summarised as 42, the other three as 0
C15_Witness ==
  /\ summarised
  /\ UpstreamScore("performance") = Num(Hundredths(42))
  /\ scores.performance = 42
  /\ scores.accessibility = 0
  /\ scores.bestPractices = 0
  /\ scores.seo = 0

-----------------------------------------------------------------------------
(* Properties of the widget's results (SpecWidget) *)

\* the analyses whose results displayResults has rendered
Displayed == {id \in Analyses : analysis[id] = "displayed"}

\* C16, amended: the results block shows nothing before the first display and
\* from then on the results of the latest analysis that displayResults has
\* rendered: a submit, an outstanding request and a failure leave them shown.
C16_ResultsStayUntilReplaced ==
  IF Displayed = {}
  THEN resultsContainer = InitialResults
  ELSE /\ resultsContainer.display = "block"
       /\ resultsContainer.of = Max(Displayed)
       /\ resultsContainer.results # NoResults

\* C16 as stated: once a submit has begun a request, the widget displays no
\* results of an earlier analysis.
C16_AsStated ==
  \A id \in Analyses :
    (analysis[id] # "none" /\ resultsContainer.display = "block") =>
      resultsContainer.of >= id

\* the second analysis is outstanding and the results of the first are shown
C16_Witness ==
  /\ Outstanding(2)
  /\ resultsContainer.display = "block"
  /\ resultsContainer.of = 1
  /\ loading.submitDisabled

\* an analysis is under way: its fetch is outstanding or its results wait
\* for the display timer
UnderWay ==
  \/ inFlight # {}
  \/ \E k \in 1..Len(timers) : timers[k].callback = "display"

\* C18: once every analysis has finished the submit button and the input are
\* enabled and the loading block is hidden, and they stay so until the next
\* submit: no timer left over from a finished request puts the widget back
\* into the loading state.
C18_EnabledOnceFinished ==
  ~UnderWay =>
    /\ ~loading.submitDisabled
    /\ ~loading.inputDisabled
    /\ loading.display = "none"

\* the categories whose panel is visible
Expanded == {category \in Categories : suggestions[category] = "block"}

\* C19: at most one panel is expanded, expandedCategory is the category whose
\* panel is visible or null when none is, a click on the expanded row has
\* collapsed it and a click on another row has collapsed the previous one and
\* expanded the clicked one, also for the rows of a later analysis.
C19_OneExpandedPanel ==
  /\ Cardinality(Expanded) <= 1
  /\ IF expandedCategory = Null THEN Expanded = {}
     ELSE Expanded = {expandedCategory.str}
  /\ resultsContainer.display = "none" => Expanded = {}
  /\ lastClick.clicked =>
       IF lastClick.before = Str(lastClick.category)
       THEN expandedCategory = Null
       ELSE /\ expandedCategory = Str(lastClick.category)
            /\ suggestions[lastClick.category] = "block"
            /\ lastClick.before # Null =>
                 suggestions[lastClick.before.str] = "none"

\* on the rows of the second analysis a click moved the expansion from one
\* category to another
C19_Witness ==
  /\ analysis[1] = "displayed"
  /\ analysis[2] = "displayed"
  /\ resultsContainer.of = 2
  /\ lastClick.clicked
  /\ lastClick.before = Str("performance")
  /\ lastClick.category = "seo"
  /\ Expanded = {"seo"}

=============================================================================
